---- MODULE Spec2Model ----
(***************************************************************************)
(* Model of webapp/Forside.py: the Streamlit front page of the municipal   *)
(* investments dashboard.  One session; every user interaction re-runs the *)
(* page script from its first line.  The script is modelled statement      *)
(* group by statement group, with pc naming the next group to execute.     *)
(* The helpers imported from utils.data_processing and utils.plots are not *)
(* part of the page source; they are modelled from their documented        *)
(* contracts.                                                              *)
(***************************************************************************)
EXTENDS Integers, Sequences, FiniteSets, TLC

(***************************************************************************)
(* Bounds                                                                  *)
(***************************************************************************)
\* largest number of rows in the stored data set
MaxRows == 2

(***************************************************************************)
(* Strings.  TLC cannot index a string, so the characters of every string  *)
(* a search or a sort looks at are listed here.                            *)
(***************************************************************************)
Letters ==
  [s \in {"", "Aarhus", "Region Midt", "Samsø", "Læsø", "Novo", "Shell",
          "Rusland", "Vestas", "Klima", "Sanktioner", "sa", "SHELL"} |->
     CASE s = ""            -> << >>
       [] s = "Aarhus"      -> <<"A","a","r","h","u","s">>
       [] s = "Region Midt" -> <<"R","e","g","i","o","n"," ","M","i","d","t">>
       [] s = "Samsø"       -> <<"S","a","m","s","ø">>
       [] s = "Læsø"        -> <<"L","æ","s","ø">>
       [] s = "Novo"        -> <<"N","o","v","o">>
       [] s = "Shell"       -> <<"S","h","e","l","l">>
       [] s = "Rusland"     -> <<"R","u","s","l","a","n","d">>
       [] s = "Vestas"      -> <<"V","e","s","t","a","s">>
       [] s = "Klima"       -> <<"K","l","i","m","a">>
       [] s = "Sanktioner"  -> <<"S","a","n","k","t","i","o","n","e","r">>
       [] s = "sa"          -> <<"s","a">>
       [] s = "SHELL"       -> <<"S","H","E","L","L">>]

\* str.lower() on one character
LowerChar(c) ==
  CASE c = "A" -> "a" [] c = "E" -> "e" [] c = "H" -> "h" [] c = "K" -> "k"
    [] c = "L" -> "l" [] c = "M" -> "m" [] c = "N" -> "n" [] c = "R" -> "r"
    [] c = "S" -> "s" [] c = "V" -> "v" [] OTHER -> c

Lower(w) == [i \in 1..Len(w) |-> LowerChar(w[i])]

\* needle occurs in hay as a contiguous run of characters
Contains(hay, needle) ==
  \E i \in 0..(Len(hay) - Len(needle)) :
     \A j \in 1..Len(needle) : hay[i + j] = needle[j]

\* the Danish collation order of the characters above
Alphabet ==
  <<" ","a","A","d","e","E","g","h","H","i","k","K","l","L","m","M","n","N",
    "o","r","R","s","S","t","u","v","V","æ","ø">>

CharRank(c) == CHOOSE i \in 1..Len(Alphabet) : Alphabet[i] = c

RECURSIVE LexLeq(_, _)
LexLeq(a, b) ==
  IF a = << >> THEN TRUE
  ELSE IF b = << >> THEN FALSE
  ELSE IF CharRank(Head(a)) < CharRank(Head(b)) THEN TRUE
  ELSE IF CharRank(Head(a)) > CharRank(Head(b)) THEN FALSE
  ELSE LexLeq(Tail(a), Tail(b))

StrLeq(s, t) == LexLeq(Letters[s], Letters[t])

(***************************************************************************)
(* Tables.  A table is a set of column names and a sequence of rows; a row *)
(* is a function from the column names to cell values.                     *)
(***************************************************************************)
Columns ==
  {"OBS", "Kommune", "Værdipapirets navn", "Markedsværdi (DKK)",
   "Årsag til eksklusion", "Årsagskategori", "Type", "ISIN kode", "Udsteder",
   "Problematisk ifølge:", "Priority"}

\* one investment record; the issuer carries the name of the security
MkRow(kommune, isin, navn, vaerdi, aarsag, kategori, type, kilde, pri) ==
  [c \in Columns |->
     CASE c = "OBS"                  -> (CASE pri = 3 -> "rød" [] pri = 2 -> "orange"
                                           [] pri = 1 -> "gul" [] OTHER -> "")
       [] c = "Kommune"              -> kommune
       [] c = "Værdipapirets navn"   -> navn
       [] c = "Markedsværdi (DKK)"   -> vaerdi
       [] c = "Årsag til eksklusion" -> aarsag
       [] c = "Årsagskategori"       -> kategori
       [] c = "Type"                 -> type
       [] c = "ISIN kode"            -> isin
       [] c = "Udsteder"             -> navn
       [] c = "Problematisk ifølge:" -> kilde
       [] c = "Priority"             -> pri]

\* the investment records the stored data set is drawn from
RowPool ==
  { MkRow("Aarhus",      "DK01", "Novo",    5, "",           "",      "Aktie",      "",   0),
    MkRow("Aarhus",      "GB02", "Shell",   3, "Klima",      "Klima", "Aktie",      "DB", 3),
    MkRow("Region Midt", "RU03", "Rusland", 2, "Sanktioner", "Lande", "Obligation", "FN", 2),
    MkRow("Samsø",       "GB02", "Shell",   1, "Klima",      "Klima", "Aktie",      "DB", 3),
    MkRow("Læsø",        "DK04", "Vestas",  4, "Klima",      "Klima", "Aktie",      "PK", 1) }

RowSeqs == UNION { [1..n -> RowPool] : n \in 0..MaxRows }

Tables == { [cols |-> Columns, rows |-> rs] : rs \in RowSeqs }

NoTable == [cols |-> {}, rows |-> << >>]

\* DataFrame.filter / boolean-mask selection: the rows satisfying P, in order
FilterTable(t, P(_)) == [cols |-> t.cols, rows |-> SelectSeq(t.rows, P)]

NRows(t) == Len(t.rows)

\* number of rows of t equal to r
Occurrences(t, r) == Cardinality({i \in 1..Len(t.rows) : t.rows[i] = r})

\* t and u hold the same rows the same number of times
SameRows(t, u) ==
  /\ NRows(t) = NRows(u)
  /\ \A i \in 1..Len(t.rows) : Occurrences(t, t.rows[i]) = Occurrences(u, t.rows[i])

(***************************************************************************)
(* Secret and stored data (lines 43-53)                                    *)
(***************************************************************************)
\* the key the stored data set was encrypted with
StoreKey == "K1"

\* byte strings the cipher accepts as a key
ValidKeys == {"K1", "K2"}

None == "None"

\* values the environment may hold in ENCRYPTION_KEY
EncodedKeys == {None, "SzE", "QQ==", "SzI=", "SzE=", "S!zE="}

\* base64.b64decode with its default validate=False: characters outside the
\* base64 alphabet are discarded before decoding, so "S!zE=" decodes as
\* "SzE=" does; "SzE" has incorrect padding and raises binascii.Error
B64Decode(s) ==
  CASE s = "SzE="  -> [err |-> "",               val |-> "K1"]
    [] s = "S!zE=" -> [err |-> "",               val |-> "K1"]
    [] s = "SzI="  -> [err |-> "",               val |-> "K2"]
    [] s = "QQ=="  -> [err |-> "",               val |-> "A"]
    [] OTHER       -> [err |-> "binascii.Error", val |-> ""]

col_list == {"Kommune", "ISIN kode", "Værdipapirets navn"}

EncryptCell(v, k) == [key |-> k, plain |-> v, intact |-> TRUE]

EncryptTable(t, k) ==
  [cols |-> t.cols,
   rows |-> [i \in 1..Len(t.rows) |->
               [c \in t.cols |-> IF c \in col_list
                                 THEN EncryptCell(t.rows[i][c], k)
                                 ELSE t.rows[i][c]]]]

\* the stored table with the ciphertext of cell (i, c) damaged
Damage(raw, i, c) ==
  [raw EXCEPT !.rows[i][c].intact = FALSE]

\* get_data(): what the data source may return
RawTables ==
  LET enc == { EncryptTable(t, StoreKey) : t \in Tables }
  IN  enc \cup UNION { { Damage(r, i, c) : i \in 1..Len(r.rows), c \in col_list }
                        : r \in enc }

CellDecrypts(cell, key) == cell.intact /\ cell.key = key

\* decrypt_dataframe(df, key, col_list): a new table with the listed columns
\* in plaintext, or the error raised
decrypt_dataframe(raw, key, cols) ==
  IF key \notin ValidKeys
  THEN [err |-> "ConfigurationError", table |-> NoTable]
  ELSE IF \E i \in 1..Len(raw.rows) : \E c \in cols : ~CellDecrypts(raw.rows[i][c], key)
  THEN [err |-> "DecryptionError", table |-> NoTable]
  ELSE [err |-> "",
        table |-> [cols |-> raw.cols,
                   rows |-> [i \in 1..Len(raw.rows) |->
                               [c \in raw.cols |-> IF c \in cols
                                                   THEN raw.rows[i][c].plain
                                                   ELSE raw.rows[i][c]]]]]

\* variant of lines 43-53: an error of decrypt_dataframe is swallowed and the
\* cells that did decrypt are stored, the others left empty
LoadAndDecryptLenient(raw, encoded_key) ==
  IF encoded_key = None
  THEN [err |-> "ValueError", table |-> NoTable]
  ELSE LET dec == B64Decode(encoded_key)
           res == decrypt_dataframe(raw, dec.val, col_list)
       IN  IF dec.err # ""
           THEN [err |-> dec.err, table |-> NoTable]
           ELSE IF res.err # ""
           THEN [err |-> "",
                 table |-> [cols |-> raw.cols,
                            rows |-> [i \in 1..Len(raw.rows) |->
                                        [c \in raw.cols |->
                                           IF c \notin col_list THEN raw.rows[i][c]
                                           ELSE IF CellDecrypts(raw.rows[i][c], dec.val)
                                           THEN raw.rows[i][c].plain
                                           ELSE ""]]]]
           ELSE res

\* lines 43-53: the value to store in the session, or the error raised
LoadAndDecrypt(raw, encoded_key) ==
  IF encoded_key = None
  THEN [err |-> "ValueError", table |-> NoTable]
  ELSE LET dec == B64Decode(encoded_key)
       IN  IF dec.err # ""
           THEN [err |-> dec.err, table |-> NoTable]
           ELSE decrypt_dataframe(raw, dec.val, col_list)

(***************************************************************************)
(* Helpers of utils.data_processing, from their documented contracts       *)
(***************************************************************************)
all_values == "Hele landet"
municipalities == "Alle kommuner"
regions == "Alle regioner"
samso == "Samsø"
laeso == "Læsø"

\* the external classification of areas into municipalities and regions;
\* the two islands belong to neither group
MunicipalityGroup == {"Aarhus"}
RegionGroup == {"Region Midt"}

\* x inserted into the sorted sequence of strings s
RECURSIVE InsertStr(_, _)
InsertStr(x, s) ==
  IF s = << >> THEN <<x>>
  ELSE IF StrLeq(Head(s), x) THEN <<Head(s)>> \o InsertStr(x, Tail(s))
  ELSE <<x>> \o s

\* the strings of the finite set S in alphabetical order
RECURSIVE SortedStrings(_)
SortedStrings(S) ==
  IF S = {} THEN << >>
  ELSE LET x == CHOOSE y \in S : TRUE
       IN  InsertStr(x, SortedStrings(S \ {x}))

ColumnValues(t, c) == { t.rows[i][c] : i \in 1..Len(t.rows) }

\* get_unique_kommuner(df): the synthetic selections, then the distinct area
\* names in alphabetical order
get_unique_kommuner(t) ==
  <<all_values, municipalities, regions>> \o SortedStrings(ColumnValues(t, "Kommune"))

\* get_unique_categories(df): the distinct non-empty categories
get_unique_categories(t) == ColumnValues(t, "Årsagskategori") \ {""}

\* the row predicate of an area selection
ChoiceKeeps(r, choice) ==
  CASE choice = all_values     -> TRUE
    [] choice = municipalities -> r["Kommune"] \in MunicipalityGroup
    [] choice = regions        -> r["Kommune"] \in RegionGroup
    [] OTHER                   -> r["Kommune"] = choice

\* filter_dataframe_by_choice(df, choice)
filter_dataframe_by_choice(t, choice) ==
  LET keep(r) == ChoiceKeeps(r, choice) IN FilterTable(t, keep)

\* the columns the free-text search looks at
SearchColumns == {"Kommune", "Værdipapirets navn", "Udsteder", "Årsag til eksklusion"}

SearchKeeps(r, query) ==
  \E c \in SearchColumns : Contains(Lower(Letters[r[c]]), Lower(Letters[query]))

\* filter_df_by_search(df, query): the empty query keeps the table as it is
filter_df_by_search(t, query) ==
  IF query = "" THEN t
  ELSE LET keep(r) == SearchKeeps(r, query) IN FilterTable(t, keep)

\* filter_dataframe_by_category(df, cats): the empty selection keeps the
\* table as it is
filter_dataframe_by_category(t, cats) ==
  IF cats = {} THEN t
  ELSE LET keep(r) == r["Årsagskategori"] \in cats IN FilterTable(t, keep)

\* the display order: by area name, then by security name
RowLeq(r, q) ==
  IF r["Kommune"] = q["Kommune"]
  THEN StrLeq(r["Værdipapirets navn"], q["Værdipapirets navn"])
  ELSE StrLeq(r["Kommune"], q["Kommune"])

RECURSIVE InsertRow(_, _)
InsertRow(x, s) ==
  IF s = << >> THEN <<x>>
  ELSE IF RowLeq(Head(s), x) THEN <<Head(s)>> \o InsertRow(x, Tail(s))
  ELSE <<x>> \o s

RECURSIVE SortRows(_)
SortRows(rs) ==
  IF rs = << >> THEN << >>
  ELSE InsertRow(rs[Len(rs)], SortRows(SubSeq(rs, 1, Len(rs) - 1)))

\* fix_column_types_and_sort(df): the cells already hold values of their
\* canonical types, so the coercion keeps them; the rows are sorted
fix_column_types_and_sort(t) == [cols |-> t.cols, rows |-> SortRows(t.rows)]

IsSorted(t) == \A i \in 1..(Len(t.rows) - 1) : RowLeq(t.rows[i], t.rows[i + 1])

(***************************************************************************)
(* Expressions of the page script                                          *)
(***************************************************************************)
\* variant of line 41: the test of the session key left out
NeedsLoadAlways(present) == TRUE

\* line 41: "df_pl" not in st.session_state
NeedsLoad(present) == ~present

\* variant of line 121: the condition read as A and (B or C)
ShowsAreaCountGrouped(choice, query, cats) ==
  choice \in {all_values, municipalities, regions} /\ (query # "" \/ cats # {})

\* line 121: the condition of the sidebar message
ShowsAreaCount(choice, query, cats) ==
  (choice \in {all_values, municipalities, regions} /\ query # "") \/ cats # {}

\* lines 122-129: the wording of the sidebar message
AreaCountWording(query) == IF query # "" THEN "search" ELSE "filter"

\* lines 124, 128: pl.col("Kommune").n_unique()
NUniqueKommune(t) == Cardinality(ColumnValues(t, "Kommune"))

\* lines 140-149: the subheader above the table
Subheader(query, cats) ==
  CASE query # "" /\ cats = {} -> "choice, search"
    [] cats # {} /\ query = "" -> "choice, categories"
    [] cats # {} /\ query # "" -> "choice, categories, search"
    [] OTHER                   -> "choice"

\* variant of line 157: shape[1], the number of columns, tested
PieBranchOnColumns(t) == IF Cardinality(t.cols) = 0 THEN "message" ELSE "chart"

\* line 157: the branch taken in the first column
PieBranch(t) == IF NRows(t) = 0 THEN "message" ELSE "chart"

CountWhere(t, P(_)) == NRows(FilterTable(t, P))

\* lines 169, 173, 174, 183
problematic_count(t) == LET p(r) == r["Priority"] \in {2, 3} IN CountWhere(t, p)
problematic_count_red(t) == LET p(r) == r["Priority"] = 3 IN CountWhere(t, p)
problematic_count_orange(t) == LET p(r) == r["Priority"] = 2 IN CountWhere(t, p)
\* variant of line 183: every flagged row counted as yellow
problematic_count_flagged(t) == LET p(r) == r["Priority"] >= 1 IN CountWhere(t, p)
problematic_count_yellow(t) == LET p(r) == r["Priority"] = 1 IN CountWhere(t, p)

\* pl.sum(column): zero on a table without rows
RECURSIVE SumCells(_, _)
SumCells(rs, c) == IF rs = << >> THEN 0 ELSE Head(rs)[c] + SumCells(Tail(rs), c)

\* lines 201-203
total_markedsvaerdi(t) == SumCells(t.rows, "Markedsværdi (DKK)")

\* lines 211-214
prob_markedsvaerdi(t) ==
  LET p(r) == r["Priority"] \in {2, 3}
  IN  SumCells(FilterTable(t, p).rows, "Markedsværdi (DKK)")

\* format_number_european(value): the value as Danish-formatted text
format_number_european(v) == [european |-> v]

DisplayColumns ==
  {"OBS", "Kommune", "Værdipapirets navn", "Markedsværdi (DKK)",
   "Årsag til eksklusion", "Årsagskategori", "Type", "ISIN kode", "Udsteder"}

\* lines 223-263: the table handed to st.dataframe
display_df(t) ==
  [cols |-> DisplayColumns,
   rows |-> [i \in 1..Len(t.rows) |->
               [c \in DisplayColumns |->
                  IF c = "Markedsværdi (DKK)"
                  THEN format_number_european(t.rows[i][c])
                  ELSE t.rows[i][c]]]]

\* line 278: DataFrame.to_pandas() builds a new frame with the same columns
\* and rows; the new frame is never the object the session holds
to_pandas(t) == [cols |-> t.cols, rows |-> t.rows]
ToPandasShares(shared) == FALSE

\* line 279: DataFrame.drop(column, axis=1, inplace=True)
DropColumn(t, col) ==
  [cols |-> t.cols \ {col},
   rows |-> [i \in 1..Len(t.rows) |-> [c \in t.cols \ {col} |-> t.rows[i][c]]]]

\* variant of lines 278-279: the drop left out
ExportFrameKeepsPriority(t) == to_pandas(t)

\* lines 278-279: the frame handed to to_excel
ExportFrame(t) == DropColumn(to_pandas(t), "Priority")

\* lines 270-275: the sheet written with index=False, as read back: a header
\* row and one row per row of the frame
to_excel(t) == [header |-> t.cols, body |-> t.rows]

\* variant of line 291: the two islands left out of the list
ShowsAITextIslands(choice) ==
  choice \notin {all_values, municipalities, regions}

\* line 291: the condition of the exclusion-reasons section
ShowsAIText(choice) ==
  choice \notin {all_values, municipalities, regions, samso, laeso}

(***************************************************************************)
(* State                                                                   *)
(***************************************************************************)
VARIABLES
  env_key,                 \* os.getenv("ENCRYPTION_KEY"), fixed for the process
  session_state,           \* st.session_state: its keys and the value of df_pl
  loads,                   \* completed load-and-decrypt steps of the session
  widget,                  \* the values the user has given the three widgets
  pc,                      \* the statement group the running script is at
  error,                   \* the exception that ended the run, "" if none
  df_retrieved,            \* script variables of the current run
  dropdown_options,
  unique_categories_list,
  user_choice,
  selected_categories,
  search_query,
  filtered_df,
  shared,                  \* filtered_df names the object session_state holds
  log,                     \* the statement groups executed in the current run
  page                     \* what the current run has rendered and computed

vars ==
  <<env_key, session_state, loads, widget, pc, error, df_retrieved,
    dropdown_options, unique_categories_list, user_choice, selected_categories,
    search_query, filtered_df, shared, log, page>>

\* the free-text searches a user types
Queries == {"", "sa", "SHELL"}

\* the completed loads counted before the counter stops
MaxLoads == 2

BlankPage ==
  [area_count |-> "none", n_areas |-> 0, subheader |-> "none", pie |-> "none",
   counted |-> FALSE, problematic |-> 0, red |-> 0, orange |-> 0, yellow |-> 0,
   key_figures |-> FALSE, antal_inv |-> 0, total |-> 0, prob |-> 0,
   shown |-> FALSE, table |-> NoTable, links |-> FALSE,
   exported |-> FALSE, excel |-> to_excel(NoTable), file_name |-> <<>>,
   ai_calls |-> << >>]

\* variant of lines 113-119: the normalization moved before the category
\* filter
AfterNormalizeEarly(p) ==
  CASE p = "load"          -> "options"
    [] p = "options"       -> "by_choice"
    [] p = "by_choice"     -> "by_search"
    [] p = "by_search"     -> "normalize"
    [] p = "normalize"     -> "by_category"
    [] p = "by_category"   -> "area_count"
    [] p = "area_count"    -> "pie"
    [] p = "pie"           -> "counts"
    [] p = "counts"        -> "key_figures"
    [] p = "key_figures"   -> "table"
    [] p = "table"         -> "export"
    [] p = "export"        -> "ai_text"
    [] p = "ai_text"       -> "done"

\* the order of the statement groups in the script
After(p) ==
  CASE p = "load"          -> "options"
    [] p = "options"       -> "by_choice"
    [] p = "by_choice"     -> "by_search"
    [] p = "by_search"     -> "by_category"
    [] p = "by_category"   -> "normalize"
    [] p = "normalize"     -> "area_count"
    [] p = "area_count"    -> "pie"
    [] p = "pie"           -> "counts"
    [] p = "counts"        -> "key_figures"
    [] p = "key_figures"   -> "table"
    [] p = "table"         -> "export"
    [] p = "export"        -> "ai_text"
    [] p = "ai_text"       -> "done"

Step(p) == /\ pc = p
           /\ pc' = After(p)
           /\ log' = Append(log, p)

HasDf == "df_pl" \in session_state.keys

Init ==
  /\ env_key \in EncodedKeys
  /\ session_state = [keys |-> {}, df_pl |-> NoTable]
  /\ loads = 0
  /\ widget = [choice |-> None, cats |-> {}, query |-> ""]
  /\ pc = "load"
  /\ error = ""
  /\ df_retrieved = NoTable
  /\ dropdown_options = << >>
  /\ unique_categories_list = {}
  /\ user_choice = None
  /\ selected_categories = {}
  /\ search_query = ""
  /\ filtered_df = NoTable
  /\ shared = FALSE
  /\ log = << >>
  /\ page = BlankPage

(***************************************************************************)
(* The script, one action per statement group                              *)
(***************************************************************************)
\* lines 41-53
LoadData ==
  /\ pc = "load"
  /\ IF NeedsLoad(HasDf)
     THEN \E raw \in RawTables :
            LET res == LoadAndDecrypt(raw, env_key)
            IN  /\ df_retrieved' = raw
                /\ IF res.err # ""
                   THEN /\ pc' = "error"
                        /\ error' = res.err
                        /\ UNCHANGED <<session_state, loads>>
                   ELSE /\ pc' = After("load")
                        /\ session_state' = [keys |-> session_state.keys \cup {"df_pl"},
                                             df_pl |-> res.table]
                        /\ loads' = IF loads < MaxLoads THEN loads + 1 ELSE loads
                        /\ UNCHANGED error
     ELSE /\ pc' = After("load")
          /\ UNCHANGED <<session_state, loads, error, df_retrieved>>
  /\ log' = Append(log, "load")
  /\ UNCHANGED <<env_key, widget, dropdown_options, unique_categories_list,
                 user_choice, selected_categories, search_query, filtered_df,
                 shared, page>>

\* lines 82-110: the options, and the values the three widgets return
SidebarWidgets ==
  /\ Step("options")
  /\ dropdown_options' = get_unique_kommuner(session_state.df_pl)
  /\ unique_categories_list' = get_unique_categories(session_state.df_pl)
  /\ user_choice' = IF widget.choice = None
                    THEN get_unique_kommuner(session_state.df_pl)[1]
                    ELSE widget.choice
  /\ selected_categories' = widget.cats
  /\ search_query' = widget.query
  /\ UNCHANGED <<env_key, session_state, loads, widget, error, df_retrieved,
                 filtered_df, shared, page>>

\* a helper that leaves its argument as it is is taken to hand back the
\* argument itself: the case in which an in-place change of the result would
\* reach the table the session holds
ResultShares(arg, argShared, result) == result = arg /\ argShared

\* line 113
FilterByChoice ==
  /\ Step("by_choice")
  /\ filtered_df' = filter_dataframe_by_choice(session_state.df_pl, user_choice)
  /\ shared' = ResultShares(session_state.df_pl, TRUE, filtered_df')
  /\ UNCHANGED <<env_key, session_state, loads, widget, error, df_retrieved,
                 dropdown_options, unique_categories_list, user_choice,
                 selected_categories, search_query, page>>

\* variant of line 115: the search run on the session table, not on the
\* result of the area filter
FilterBySearchOfSession ==
  /\ Step("by_search")
  /\ filtered_df' = filter_df_by_search(session_state.df_pl, search_query)
  /\ shared' = ResultShares(session_state.df_pl, TRUE, filtered_df')
  /\ UNCHANGED <<env_key, session_state, loads, widget, error, df_retrieved,
                 dropdown_options, unique_categories_list, user_choice,
                 selected_categories, search_query, page>>

\* line 115
FilterBySearch ==
  /\ Step("by_search")
  /\ filtered_df' = filter_df_by_search(filtered_df, search_query)
  /\ shared' = ResultShares(filtered_df, shared, filtered_df')
  /\ UNCHANGED <<env_key, session_state, loads, widget, error, df_retrieved,
                 dropdown_options, unique_categories_list, user_choice,
                 selected_categories, search_query, page>>

\* variant of line 117: the category filter run on the session table, not on
\* the result of the search
FilterByCategoryOfSession ==
  /\ Step("by_category")
  /\ filtered_df' = filter_dataframe_by_category(session_state.df_pl, selected_categories)
  /\ shared' = ResultShares(session_state.df_pl, TRUE, filtered_df')
  /\ UNCHANGED <<env_key, session_state, loads, widget, error, df_retrieved,
                 dropdown_options, unique_categories_list, user_choice,
                 selected_categories, search_query, page>>

\* line 117
FilterByCategory ==
  /\ Step("by_category")
  /\ filtered_df' = filter_dataframe_by_category(filtered_df, selected_categories)
  /\ shared' = ResultShares(filtered_df, shared, filtered_df')
  /\ UNCHANGED <<env_key, session_state, loads, widget, error, df_retrieved,
                 dropdown_options, unique_categories_list, user_choice,
                 selected_categories, search_query, page>>

\* line 119
Normalize ==
  /\ Step("normalize")
  /\ filtered_df' = fix_column_types_and_sort(filtered_df)
  /\ shared' = ResultShares(filtered_df, shared, filtered_df')
  /\ UNCHANGED <<env_key, session_state, loads, widget, error, df_retrieved,
                 dropdown_options, unique_categories_list, user_choice,
                 selected_categories, search_query, page>>

\* lines 121-129
AreaCount ==
  /\ Step("area_count")
  /\ page' = IF ShowsAreaCount(user_choice, search_query, selected_categories)
             THEN [page EXCEPT !.area_count = AreaCountWording(search_query),
                               !.n_areas = NUniqueKommune(filtered_df)]
             ELSE page
  /\ UNCHANGED <<env_key, session_state, loads, widget, error, df_retrieved,
                 dropdown_options, unique_categories_list, user_choice,
                 selected_categories, search_query, filtered_df, shared>>

\* lines 139-160: create_pie_chart draws from the table it is given
PieColumn ==
  /\ Step("pie")
  /\ page' = [page EXCEPT !.subheader = Subheader(search_query, selected_categories),
                          !.pie = PieBranch(filtered_df)]
  /\ UNCHANGED <<env_key, session_state, loads, widget, error, df_retrieved,
                 dropdown_options, unique_categories_list, user_choice,
                 selected_categories, search_query, filtered_df, shared>>

\* lines 163-190
Counts ==
  /\ Step("counts")
  /\ page' = [page EXCEPT !.counted = TRUE,
                          !.problematic = problematic_count(filtered_df),
                          !.red = problematic_count_red(filtered_df),
                          !.orange = problematic_count_orange(filtered_df),
                          !.yellow = problematic_count_yellow(filtered_df)]
  /\ UNCHANGED <<env_key, session_state, loads, widget, error, df_retrieved,
                 dropdown_options, unique_categories_list, user_choice,
                 selected_categories, search_query, filtered_df, shared>>

\* lines 193-219
KeyFigures ==
  /\ Step("key_figures")
  /\ page' = [page EXCEPT !.key_figures = TRUE,
                          !.antal_inv = NRows(filtered_df),
                          !.total = total_markedsvaerdi(filtered_df),
                          !.prob = prob_markedsvaerdi(filtered_df)]
  /\ UNCHANGED <<env_key, session_state, loads, widget, error, df_retrieved,
                 dropdown_options, unique_categories_list, user_choice,
                 selected_categories, search_query, filtered_df, shared>>

\* lines 223-266
ShowTable ==
  /\ Step("table")
  /\ page' = [page EXCEPT !.shown = TRUE,
                          !.table = display_df(filtered_df),
                          !.links = TRUE]
  /\ UNCHANGED <<env_key, session_state, loads, widget, error, df_retrieved,
                 dropdown_options, unique_categories_list, user_choice,
                 selected_categories, search_query, filtered_df, shared>>

\* lines 278-289: the name filtered_df is rebound to the pandas frame, and the
\* column is dropped from that frame in place
Export ==
  /\ Step("export")
  /\ filtered_df' = ExportFrame(filtered_df)
  /\ shared' = ToPandasShares(shared)
  /\ session_state' = IF shared'
                      THEN [session_state EXCEPT !.df_pl = filtered_df']
                      ELSE session_state
  /\ page' = [page EXCEPT !.exported = TRUE,
                          !.excel = to_excel(filtered_df'),
                          !.file_name = <<user_choice, search_query>>]
  /\ UNCHANGED <<env_key, loads, widget, error, df_retrieved, dropdown_options,
                 unique_categories_list, user_choice, selected_categories,
                 search_query>>

\* lines 291-302
AIText ==
  /\ Step("ai_text")
  /\ page' = IF ShowsAIText(user_choice)
             THEN [page EXCEPT !.ai_calls = Append(page.ai_calls, user_choice)]
             ELSE page
  /\ UNCHANGED <<env_key, session_state, loads, widget, error, df_retrieved,
                 dropdown_options, unique_categories_list, user_choice,
                 selected_categories, search_query, filtered_df, shared>>

(***************************************************************************)
(* The user                                                                *)
(***************************************************************************)
\* a new run starts from the first line with fresh script variables
StartRun ==
  /\ pc' = "load"
  /\ error' = ""
  /\ df_retrieved' = NoTable
  /\ dropdown_options' = << >>
  /\ unique_categories_list' = {}
  /\ user_choice' = None
  /\ selected_categories' = {}
  /\ search_query' = ""
  /\ filtered_df' = NoTable
  /\ shared' = FALSE
  /\ log' = << >>
  /\ page' = BlankPage

\* the user changes the widgets of the rendered page, which re-runs the script
Interact ==
  /\ pc = "done"
  /\ \E c \in {dropdown_options[i] : i \in 1..Len(dropdown_options)},
        cs \in SUBSET unique_categories_list,
        q \in Queries :
        widget' = [choice |-> c, cats |-> cs, query |-> q]
  /\ StartRun
  /\ UNCHANGED <<env_key, session_state, loads>>

\* the user re-runs the script after a run that ended in an error
Rerun ==
  /\ pc = "error"
  /\ StartRun
  /\ UNCHANGED <<env_key, session_state, loads, widget>>

Next ==
  \/ LoadData
  \/ SidebarWidgets
  \/ FilterByChoice
  \/ FilterBySearch
  \/ FilterByCategory
  \/ Normalize
  \/ AreaCount
  \/ PieColumn
  \/ Counts
  \/ KeyFigures
  \/ ShowTable
  \/ Export
  \/ AIText
  \/ Interact
  \/ Rerun

Spec == Init /\ [][Next]_vars

TypeOK ==
  /\ env_key \in EncodedKeys
  /\ loads \in 0..MaxLoads
  /\ pc \in {"load", "options", "by_choice", "by_search", "by_category",
              "normalize", "area_count", "pie", "counts", "key_figures",
              "table", "export", "ai_text", "done", "error"}
  /\ search_query \in Queries
  /\ shared \in BOOLEAN

\* the statement groups of the script
ScriptStep ==
  \/ LoadData \/ SidebarWidgets \/ FilterByChoice \/ FilterBySearch
  \/ FilterByCategory \/ Normalize \/ AreaCount \/ PieColumn \/ Counts
  \/ KeyFigures \/ ShowTable \/ Export \/ AIText

(***************************************************************************)
(* Properties                                                              *)
(***************************************************************************)
Ran(p) == \E i \in 1..Len(log) : log[i] = p

Synthetic == {all_values, municipalities, regions}

RowsWhere(t, P(_)) == {i \in 1..Len(t.rows) : P(t.rows[i])}

\* C1: within a session the load-and-decrypt step completes at most once, and
\* once st.session_state.df_pl is set no later step of any run changes it,
\* the in-place drop of Priority before the export included.
LoadedOnceNeverChanged ==
  /\ [](loads <= 1)
  /\ [][HasDf => (HasDf' /\ session_state'.df_pl = session_state.df_pl)]_vars

\* a second run has exported a non-empty table of the loaded data
LoadedOnceWitness ==
  /\ pc = "done" /\ widget.choice # None /\ page.exported
  /\ HasDf /\ loads = 1
  /\ NRows(filtered_df) > 0 /\ "Priority" \notin filtered_df.cols
  /\ "Priority" \in session_state.df_pl.cols

\* C2: when the key is absent or malformed (it does not decode, or decodes to
\* bytes the cipher rejects as a key), or a cell of the three encrypted
\* columns cannot be decrypted, the run ends in an error at the load: df_pl
\* stays unset and no later statement group of that run has run.
KeyUsable ==
  /\ env_key # None
  /\ B64Decode(env_key).err = ""
  /\ B64Decode(env_key).val \in ValidKeys

SomeCellUndecryptable ==
  \E i \in 1..Len(df_retrieved.rows) : \E c \in col_list :
     \/ ~df_retrieved.rows[i][c].intact
     \/ df_retrieved.rows[i][c].key # B64Decode(env_key).val

AreaRowsExact ==
  (Ran("normalize") /\ ~Ran("export") /\ user_choice \notin Synthetic
     /\ search_query = "" /\ selected_categories = {})
    => LET inArea(r) == r["Kommune"] = user_choice
       IN  /\ SameRows(filtered_df, FilterTable(session_state.df_pl, inArea))
           /\ \A i \in 1..NRows(filtered_df) : filtered_df.rows[i]["Kommune"] = user_choice
           /\ NRows(filtered_df) = Cardinality(RowsWhere(session_state.df_pl, inArea))

EmptyInputsAreIdentity ==
  /\ (pc = "by_search" /\ search_query = "") => filtered_df' = filtered_df
  /\ (pc = "by_category" /\ selected_categories = {}) => filtered_df' = filtered_df

AreaPipelineExact == [](AreaRowsExact) /\ [][EmptyInputsAreIdentity]_vars

\* one area of a two-area table selected
AreaPipelineWitness ==
  /\ pc = "area_count" /\ user_choice = "Aarhus"
  /\ search_query = "" /\ selected_categories = {}
  /\ NRows(session_state.df_pl) = 2 /\ NRows(filtered_df) = 1

\* C4: the red, orange and yellow counts are the numbers of rows of the
\* filtered table with Priority 3, 2 and 1; all zero on the empty table.
SeverityCountsExact ==
  (page.counted /\ ~Ran("export"))
    => LET n(p) == Cardinality({i \in 1..NRows(filtered_df) :
                                  filtered_df.rows[i]["Priority"] = p})
       IN  /\ page.red = n(3) /\ page.orange = n(2) /\ page.yellow = n(1)
           /\ NRows(filtered_df) = 0
                => (page.red = 0 /\ page.orange = 0 /\ page.yellow = 0)

SeverityCountsWitness ==
  /\ page.counted /\ ~Ran("export")
  /\ page.red = 1 /\ page.orange = 1 /\ page.yellow = 0

\* C5: the frame handed to the Excel export has one row per row of the
\* filtered table, and the filtered table's columns except Priority.
ExportStep ==
  pc = "export"
    => /\ NRows(filtered_df') = NRows(filtered_df)
       /\ filtered_df'.cols = filtered_df.cols \ {"Priority"}
       /\ \A i \in 1..NRows(filtered_df) :
             \A c \in filtered_df.cols \ {"Priority"} :
                filtered_df'.rows[i][c] = filtered_df.rows[i][c]
       /\ page'.excel.header = filtered_df.cols \ {"Priority"}
       /\ page'.excel.body = filtered_df'.rows

ExportKeepsRowsDropsPriority == [][ExportStep]_vars

ExportWitness ==
  /\ page.exported /\ Len(page.excel.body) = 2
  /\ page.excel.header = Columns \ {"Priority"}

\* C6: when no row matches the selection the run raises nothing and its next
\* statement group can always run, up to the end of the script: the "no
\* investments" message stands in place of the pie chart and the row count,
\* every severity count and both market-value sums are 0.
EmptyResult == Ran("normalize") /\ NRows(filtered_df) = 0

EmptyResultRenders ==
  EmptyResult
    => /\ pc # "error" /\ error = ""
       /\ pc # "done" => ENABLED ScriptStep
       /\ page.pie \in {"none", "message"}
       /\ Ran("pie") => page.pie = "message"
       /\ Ran("counts")
            => (page.problematic = 0 /\ page.red = 0 /\ page.orange = 0
                  /\ page.yellow = 0)
       /\ Ran("key_figures")
            => (page.antal_inv = 0 /\ page.total = 0 /\ page.prob = 0)

\* a selection that matches nothing in a table that has rows
EmptyResultWitness ==
  /\ pc = "done" /\ NRows(session_state.df_pl) > 0 /\ NRows(filtered_df) = 0
  /\ page.pie = "message" /\ page.key_figures /\ page.total = 0 /\ page.exported

\* C7: in every run the normalization comes after the area, search and
\* category filters and before every statement group that reads the table
\* for aggregation, display or export; none of the three filters runs on a
\* normalized table.
PipelineFilters == {"by_choice", "by_search", "by_category"}

TableReaders == {"area_count", "pie", "counts", "key_figures", "table", "export"}

NormalizationLast ==
  \A j \in 1..Len(log) :
     /\ log[j] \in TableReaders => \E i \in 1..(j - 1) : log[i] = "normalize"
     /\ log[j] = "normalize"
          => \A f \in PipelineFilters : \E i \in 1..(j - 1) : log[i] = f
     /\ log[j] \in PipelineFilters => \A i \in 1..(j - 1) : log[i] # "normalize"

NormalizationLastWitness ==
  /\ pc = "done" /\ Ran("normalize") /\ Ran("by_category") /\ Ran("export")
  /\ selected_categories # {} /\ IsSorted(filtered_df) /\ NRows(filtered_df) = 2

\* C8: the area, search and category filters commute: each of the six orders
\* gives the table the page computes (area, then search, then category).
FiltersCommute ==
  (Ran("by_category") /\ ~Ran("normalize"))
    => LET T == session_state.df_pl
           A(t) == filter_dataframe_by_choice(t, user_choice)
           S(t) == filter_df_by_search(t, search_query)
           C(t) == filter_dataframe_by_category(t, selected_categories)
       IN  /\ filtered_df = C(S(A(T)))
           /\ filtered_df = S(C(A(T)))
           /\ filtered_df = C(A(S(T)))
           /\ filtered_df = A(C(S(T)))
           /\ filtered_df = S(A(C(T)))
           /\ filtered_df = A(S(C(T)))

\* all three filters given on a two-row table, one row left
FiltersCommuteWitness ==
  /\ pc = "normalize" /\ user_choice \notin Synthetic
  /\ search_query # "" /\ selected_categories # {}
  /\ NRows(filtered_df) = 1 /\ NRows(session_state.df_pl) = 2

\* C9: get_ai_text is called exactly when the selection is none of the three
\* synthetic values and neither island, once, with the selection, whatever
\* the search text and the categories; not at all otherwise.
AITextOnlyForRealAreas ==
  /\ pc = "done"
       => page.ai_calls =
            IF user_choice \in {"Hele landet", "Alle kommuner", "Alle regioner",
                                "Samsø", "Læsø"}
            THEN << >> ELSE <<user_choice>>
  /\ pc # "done" => page.ai_calls = << >>

AITextWitness ==
  /\ pc = "done" /\ page.ai_calls = <<"Aarhus">>
  /\ search_query # "" /\ selected_categories # {}

\* C10: the sidebar count of distinct areas is shown exactly when (a synthetic
\* value is selected and the search text is non-empty) or a category is
\* selected; with the search wording when there is search text, with the
\* after-filtering wording otherwise.
AreaCountShown ==
  /\ ~Ran("area_count") => page.area_count = "none"
  /\ Ran("area_count")
       => LET synthetic == user_choice \in Synthetic
              due == (synthetic /\ search_query # "") \/ selected_categories # {}
          IN  /\ page.area_count # "none" <=> due
              /\ (due /\ search_query # "") => page.area_count = "search"
              /\ (due /\ search_query = "") => page.area_count = "filter"
              /\ due => page.n_areas =
                          Cardinality({filtered_df.rows[i]["Kommune"] :
                                         i \in 1..NRows(filtered_df)})
              /\ (~synthetic /\ selected_categories # {}) => page.area_count # "none"
              /\ (synthetic /\ search_query = "" /\ selected_categories = {})
                   => page.area_count = "none"

\* a single real area with a category selected and no search text
AreaCountWitness ==
  /\ Ran("area_count") /\ user_choice = "Aarhus"
  /\ selected_categories # {} /\ search_query = ""
  /\ page.area_count = "filter" /\ page.n_areas = 1
====
